---- MODULE Spec2Model ----
(***************************************************************************)
(* Model of GeminiTravelAssistant (src/gemini_function_calling.py): its    *)
(* construction, the four mock data providers, the function dispatcher     *)
(* _execute_function_call, the plan_trip orchestration loop and            *)
(* get_packing_list, run against a nondeterministic AI service; and of the *)
(* prompt builders of src/prompts.py.                                      *)
(*                                                                         *)
(* Representation.  A text is a sequence of tokens (strings, and integers  *)
(* standing for their decimal rendering), so an f-string is the            *)
(* concatenation of its pieces.  A Python dict is a function from its keys *)
(* to its values.  An exception is a record [type, msg] and str(e) is msg. *)
(* "Rs" stands for the rupee sign of the price strings.                    *)
(***************************************************************************)
EXTENDS Integers, Sequences, FiniteSets, TLC

VARIABLES
    assistant,        \* the object's class and fields api_key, weather_api_key
    pc,               \* position of the caller / of plan_trip
    request,          \* arguments of the running invocation
    response,         \* last reply obtained from the AI service
    function_call,    \* descriptor last handed to the dispatcher
    function_result,  \* outcome of the last dispatcher or provider call
    calls,            \* providers invoked by the last dispatcher call
    sent,             \* messages sent to the service in this invocation
    turns,            \* dispatcher round-trips of this invocation
    ret,              \* what the last public operation returned
    sdk,              \* the AI SDK: the key it is configured with, its models
    produced          \* function-call parts the service gave in this invocation

vars == <<assistant, pc, request, response, function_call, function_result,
          calls, sent, turns, ret, sdk, produced>>

-----------------------------------------------------------------------------
(* Bounds of the model *)

MaxPrefs == 2        \* longest preference list tried
MaxDuration == 3     \* largest trip_duration tried
MaxTravelers == 2    \* largest traveler count tried
MaxTurns == 2        \* function-call replies the service gives per invocation

-----------------------------------------------------------------------------
(* Python helpers *)

None == "None"

Min(a, b) == IF a <= b THEN a ELSE b
Max(a, b) == IF a >= b THEN a ELSE b

\* s[:stop] of a Python sequence: a negative stop counts from the end.
SliceTo(s, stop) ==
    LET n == Len(s)
        e == IF stop < 0 THEN Max(n + stop, 0) ELSE Min(stop, n)
    IN SubSeq(s, 1, e)

\* s[start:stop] for start, stop >= 0.
Slice(s, start, stop) ==
    LET n == Len(s)
        b == Min(start, n)
        e == Min(stop, n)
    IN SubSeq(s, b + 1, e)

\* d restricted to the keys in K (a dict holding only some of the keys).
Restrict(d, K) == [k \in (DOMAIN d) \cap K |-> d[k]]

\* dict.get(key, default)
Get(d, key, default) == IF key \in DOMAIN d THEN d[key] ELSE default

Exc(type, msg) == [type |-> type, msg |-> msg]
Returned(v) == [kind |-> "return", value |-> v]
Raised(e) == [kind |-> "raise", exc |-> e]

\* str.lower() on the preference vocabulary of the model.
Lower(s) ==
    CASE s = "Beach" -> "beach"
      [] OTHER -> s

\* Ill-typed argument values.  A value that cannot be iterated (an int where
\* a list is expected) is written NotIterable; a list element that is not a
\* str is a member of NonText; a value that cannot be hashed (a list where a
\* str is expected) is a member of Unhashable.
NotIterable == <<"<not iterable>">>
NonText == {"<int 7>"}
Unhashable == {"<list>"}

-----------------------------------------------------------------------------
(* Mock data providers.  Each body is a try whose except clause returns    *)
(* the provider's error descriptor.                                        *)

ForecastDay(date_str, hi, lo, cond, hum, wind, rain) ==
    [date |-> date_str, temperature_high |-> hi, temperature_low |-> lo,
     condition |-> cond, humidity |-> hum, wind_speed |-> wind,
     precipitation_chance |-> rain]

\* Variant: with a weather key the forecast is left empty.
getWeatherNoForecast(self, location, dates) ==
    IF dates = NotIterable
    THEN [location |-> location,
          error |-> <<"Unable to fetch weather data">>,
          summary |-> <<"Weather information unavailable">>]
    ELSE IF self.weather_api_key = None
    THEN [location |-> location,
          forecast |-> [i \in 1..Len(dates) |->
                          ForecastDay(dates[i], 28, 22, "Partly cloudy", 65, 12, 20)],
          summary |-> <<"Pleasant weather expected in ", location,
                        " with temperatures ranging from 22C to 28C">>]
    ELSE [location |-> location,
          forecast |-> << >>,
          summary |-> <<"Generally sunny weather in ", location,
                        " with highs around 30C">>]

getWeather(self, location, dates) ==
    IF dates = NotIterable
    THEN \* iterating dates raises TypeError, caught at line 246
         [location |-> location,
          error |-> <<"Unable to fetch weather data">>,
          summary |-> <<"Weather information unavailable">>]
    ELSE IF self.weather_api_key = None
    THEN [location |-> location,
          forecast |-> [i \in 1..Len(dates) |->
                          ForecastDay(dates[i], 28, 22, "Partly cloudy", 65, 12, 20)],
          summary |-> <<"Pleasant weather expected in ", location,
                        " with temperatures ranging from 22C to 28C">>]
    ELSE [location |-> location,
          forecast |-> [i \in 1..Len(dates) |->
                          ForecastDay(dates[i], 30, 24, "Sunny", 60, 8, 10)],
          summary |-> <<"Generally sunny weather in ", location,
                        " with highs around 30C">>]

Flight(airline, number, dep, arr, dur, price, url) ==
    [airline |-> airline, flight_number |-> number, departure_time |-> dep,
     arrival_time |-> arr, duration |-> dur, price |-> <<"Rs", price>>,
     booking_url |-> url]

\* Variant: the fares are not multiplied by the traveler count.
getFlightsFlat(from_location, to_location, departure_date, return_date, travelers) ==
    [search_criteria |-> [from |-> from_location, to |-> to_location,
                          departure |-> departure_date, return |-> return_date,
                          travelers |-> travelers],
     outbound_flights |->
        << Flight("IndiGo", "6E 123", "08:30", "10:45", "2h 15m",
                  4500, "https://www.goindigo.in/booking"),
           Flight("Air India", "AI 456", "14:20", "16:40", "2h 20m",
                  5200, "https://www.airindia.in/booking") >>,
     return_flights |->
        IF return_date = None \/ return_date = ""
        THEN << >>
        ELSE << Flight("IndiGo", "6E 789", "18:15", "20:30", "2h 15m",
                       4800, "https://www.goindigo.in/booking") >>,
     summary |-> <<"Found multiple flight options from ", from_location,
                   " to ", to_location>>]

getFlights(from_location, to_location, departure_date, return_date, travelers) ==
    [search_criteria |-> [from |-> from_location, to |-> to_location,
                          departure |-> departure_date, return |-> return_date,
                          travelers |-> travelers],
     outbound_flights |->
        << Flight("IndiGo", "6E 123", "08:30", "10:45", "2h 15m",
                  4500 * travelers, "https://www.goindigo.in/booking"),
           Flight("Air India", "AI 456", "14:20", "16:40", "2h 20m",
                  5200 * travelers, "https://www.airindia.in/booking") >>,
     return_flights |->
        IF return_date = None \/ return_date = ""
        THEN << >>
        ELSE << Flight("IndiGo", "6E 789", "18:15", "20:30", "2h 15m",
                       4800 * travelers, "https://www.goindigo.in/booking") >>,
     summary |-> <<"Found multiple flight options from ", from_location,
                   " to ", to_location>>]

\* price_ranges: category -> (low, high)
price_ranges ==
    [c \in {"budget", "mid-range", "luxury"} |->
        CASE c = "budget" -> <<1500, 3000>>
          [] c = "mid-range" -> <<3000, 8000>>
          [] c = "luxury" -> <<8000, 25000>>]

\* Variant: the upper end of the price range is taken as the base price.
BasePriceUpper(budget_category) ==
    Get(price_ranges, budget_category, price_ranges["mid-range"])[2]

\* price_ranges.get(budget_category, price_ranges["mid-range"])[0]
BasePrice(budget_category) ==
    Get(price_ranges, budget_category, price_ranges["mid-range"])[1]

\* int(base_price * 1.3): the product truncated toward zero.  For the three
\* table prices the double product is the exact integer 1950.0, 3900.0,
\* 10400.0, so truncating the exact product 13*base/10 gives the same value.
SecondPrice(base_price) == (base_price * 13) \div 10

Hotel(name, category, rating, price, amenities, location, url) ==
    [name |-> name, category |-> category, rating |-> rating,
     price_per_night |-> <<"Rs", price>>, amenities |-> amenities,
     location |-> location, booking_url |-> url]

getHotels(destination, check_in, check_out, travelers, budget_category) ==
    IF budget_category \in Unhashable
    THEN \* price_ranges.get raises TypeError, caught at line 382
         [error |-> <<"Unable to fetch hotel data">>,
          summary |-> <<"Hotel information unavailable">>]
    ELSE
    LET base_price == BasePrice(budget_category) IN
    [search_criteria |-> [destination |-> destination, check_in |-> check_in,
                          check_out |-> check_out, travelers |-> travelers,
                          budget_category |-> budget_category],
     hotels |->
        << Hotel(<<"Hotel Paradise ", destination>>, budget_category, "4.2",
                 base_price,
                 <<"Free WiFi", "Swimming Pool", "Restaurant", "Room Service">>,
                 <<"Central ", destination>>, "https://www.booking.com"),
           Hotel(<<"Grand ", destination, " Resort">>, budget_category, "4.5",
                 SecondPrice(base_price),
                 <<"Spa", "Beach Access", "Multiple Restaurants", "Gym">>,
                 <<"Beach Area, ", destination>>, "https://www.agoda.com") >>,
     summary |-> <<"Found ", budget_category, " hotels in ", destination,
                   " starting from Rs", base_price, " per night">>]

attraction_categories ==
    [c \in {"beach", "culture", "adventure", "food", "nightlife", "shopping"} |->
        CASE c = "beach" -> <<"Baga Beach", "Calangute Beach", "Anjuna Beach">>
          [] c = "culture" -> <<"Old Goa Churches", "Goa State Museum",
                                "Fontainhas Latin Quarter">>
          [] c = "adventure" -> <<"Water Sports at Baga", "Scuba Diving",
                                  "Parasailing">>
          [] c = "food" -> <<"Thalassa Restaurant", "Fisherman's Wharf",
                             "Local Fish Markets">>
          [] c = "nightlife" -> <<"Club Cubana", "Tito's", "Casino Palms">>
          [] c = "shopping" -> <<"Anjuna Flea Market", "Mapusa Market",
                                 "Panaji Shopping">>]

UniversalAttractions == <<"Fort Aguada", "Dudhsagar Falls">>

\* The list built by the loop over the preferences (lines 413-416).
RECURSIVE Collect(_)
Collect(preferences) ==
    IF preferences = << >> THEN << >>
    ELSE LET pref == Head(preferences) IN
         (IF Lower(pref) \in DOMAIN attraction_categories
          THEN SliceTo(attraction_categories[Lower(pref)], 2)
          ELSE << >>)
         \o Collect(Tail(preferences))

\* recommended_attractions before truncation (after line 419).
Collected(preferences) == Collect(preferences) \o UniversalAttractions

\* Variant: one day per day of the trip, however few attractions there are.
getAttractionsAllDays(destination, preferences, trip_duration) ==
    IF preferences = NotIterable \/ \E i \in 1..Len(preferences) : preferences[i] \in NonText
    THEN [error |-> <<"Unable to fetch attractions data">>,
          summary |-> <<"Attractions information unavailable">>]
    ELSE
    LET recommended_attractions == Collected(preferences) IN
    [destination |-> destination,
     preferences |-> preferences,
     recommended_attractions |-> SliceTo(recommended_attractions, trip_duration * 2),
     day_wise_suggestions |->
        [k \in 1..trip_duration |-> Slice(recommended_attractions, (k - 1) * 2, k * 2)],
     summary |-> <<"Found ", Len(recommended_attractions),
                   " attractions matching your preferences in ", destination>>]

\* Variant: the list is truncated to trip_duration instead of twice that.
getAttractionsShort(destination, preferences, trip_duration) ==
    IF preferences = NotIterable \/ \E i \in 1..Len(preferences) : preferences[i] \in NonText
    THEN \* the loop or pref.lower() raises, caught at line 435
         [error |-> <<"Unable to fetch attractions data">>,
          summary |-> <<"Attractions information unavailable">>]
    ELSE
    LET recommended_attractions == Collected(preferences)
        days == Min(trip_duration, Len(recommended_attractions) \div 2)
    IN
    [destination |-> destination,
     preferences |-> preferences,
     recommended_attractions |-> SliceTo(recommended_attractions, trip_duration),
     day_wise_suggestions |->
        [k \in 1..days |-> Slice(recommended_attractions, (k - 1) * 2, k * 2)],
     summary |-> <<"Found ", Len(recommended_attractions),
                   " attractions matching your preferences in ", destination>>]

getAttractions(destination, preferences, trip_duration) ==
    IF preferences = NotIterable \/ \E i \in 1..Len(preferences) : preferences[i] \in NonText
    THEN \* the loop or pref.lower() raises, caught at line 435
         [error |-> <<"Unable to fetch attractions data">>,
          summary |-> <<"Attractions information unavailable">>]
    ELSE
    LET recommended_attractions == Collected(preferences)
        days == Min(trip_duration, Len(recommended_attractions) \div 2)
    IN
    [destination |-> destination,
     preferences |-> preferences,
     recommended_attractions |-> SliceTo(recommended_attractions, trip_duration * 2),
     \* key "day_k" is modelled by the number k
     day_wise_suggestions |->
        [k \in 1..days |-> Slice(recommended_attractions, (k - 1) * 2, k * 2)],
     summary |-> <<"Found ", Len(recommended_attractions),
                   " attractions matching your preferences in ", destination>>]

-----------------------------------------------------------------------------
(* Function dispatcher *)

KnownFunctions == {"getWeather", "getFlights", "getHotels", "getAttractions"}

\* The keys each branch indexes with function_args[...], in evaluation order.
IndexedKeys(function_name) ==
    CASE function_name = "getWeather" -> <<"location", "dates">>
      [] function_name = "getFlights" ->
            <<"from_location", "to_location", "departure_date", "travelers">>
      [] function_name = "getHotels" ->
            <<"destination", "check_in", "check_out", "travelers">>
      [] function_name = "getAttractions" -> <<"destination", "preferences">>
      [] OTHER -> << >>

\* The keyword arguments as Python evaluates them, left to right: the first
\* function_args[key] whose key is absent raises KeyError(key).
RECURSIVE FirstMissing(_, _)
FirstMissing(function_args, keys) ==
    IF keys = << >> THEN None
    ELSE IF Head(keys) \notin DOMAIN function_args THEN Head(keys)
    ELSE FirstMissing(function_args, Tail(keys))

\* Variant: getFlights is called with origin and destination exchanged.
CallArgsSwapped(function_name, function_args) ==
    CASE function_name = "getWeather" ->
            [location |-> function_args["location"],
             dates |-> function_args["dates"]]
      [] function_name = "getFlights" ->
            [from_location |-> function_args["to_location"],
             to_location |-> function_args["from_location"],
             departure_date |-> function_args["departure_date"],
             return_date |-> Get(function_args, "return_date", None),
             travelers |-> function_args["travelers"]]
      [] function_name = "getHotels" ->
            [destination |-> function_args["destination"],
             check_in |-> function_args["check_in"],
             check_out |-> function_args["check_out"],
             travelers |-> function_args["travelers"],
             budget_category |-> Get(function_args, "budget_category", "mid-range")]
      [] function_name = "getAttractions" ->
            [destination |-> function_args["destination"],
             preferences |-> function_args["preferences"],
             trip_duration |-> Get(function_args, "trip_duration", 3)]

\* Variant: an absent budget_category defaults to "budget".
CallArgsBudgetDefault(function_name, function_args) ==
    CASE function_name = "getWeather" ->
            [location |-> function_args["location"],
             dates |-> function_args["dates"]]
      [] function_name = "getFlights" ->
            [from_location |-> function_args["from_location"],
             to_location |-> function_args["to_location"],
             departure_date |-> function_args["departure_date"],
             return_date |-> Get(function_args, "return_date", None),
             travelers |-> function_args["travelers"]]
      [] function_name = "getHotels" ->
            [destination |-> function_args["destination"],
             check_in |-> function_args["check_in"],
             check_out |-> function_args["check_out"],
             travelers |-> function_args["travelers"],
             budget_category |-> Get(function_args, "budget_category", "budget")]
      [] function_name = "getAttractions" ->
            [destination |-> function_args["destination"],
             preferences |-> function_args["preferences"],
             trip_duration |-> Get(function_args, "trip_duration", 3)]

\* The keyword arguments of the provider call of each branch.
CallArgs(function_name, function_args) ==
    CASE function_name = "getWeather" ->
            [location |-> function_args["location"],
             dates |-> function_args["dates"]]
      [] function_name = "getFlights" ->
            [from_location |-> function_args["from_location"],
             to_location |-> function_args["to_location"],
             departure_date |-> function_args["departure_date"],
             return_date |-> Get(function_args, "return_date", None),
             travelers |-> function_args["travelers"]]
      [] function_name = "getHotels" ->
            [destination |-> function_args["destination"],
             check_in |-> function_args["check_in"],
             check_out |-> function_args["check_out"],
             travelers |-> function_args["travelers"],
             budget_category |-> Get(function_args, "budget_category", "mid-range")]
      [] function_name = "getAttractions" ->
            [destination |-> function_args["destination"],
             preferences |-> function_args["preferences"],
             trip_duration |-> Get(function_args, "trip_duration", 3)]

\* self.<provider>(**kw)
Provider(self, name, kw) ==
    CASE name = "getWeather" -> getWeather(self, kw.location, kw.dates)
      [] name = "getFlights" ->
            getFlights(kw.from_location, kw.to_location, kw.departure_date,
                       kw.return_date, kw.travelers)
      [] name = "getHotels" ->
            getHotels(kw.destination, kw.check_in, kw.check_out, kw.travelers,
                      kw.budget_category)
      [] name = "getAttractions" ->
            getAttractions(kw.destination, kw.preferences, kw.trip_duration)

ProviderCall(name, kw) == [provider |-> name, kwargs |-> kw]

\* does the body of the provider raise for these arguments
BodyRaises(name, kw) ==
    CASE name = "getWeather" -> kw.dates = NotIterable
      [] name = "getHotels" -> kw.budget_category \in Unhashable
      [] name = "getAttractions" ->
            \/ kw.preferences = NotIterable
            \/ \E i \in 1..Len(kw.preferences) : kw.preferences[i] \in NonText
      [] OTHER -> FALSE

\* Variant: the providers have no try/except.
CallProviderNoCatch(self, name, kw) ==
    IF BodyRaises(name, kw)
    THEN Raised(Exc("TypeError", <<"bad argument">>))
    ELSE Returned(Provider(self, name, kw))

\* A call of a provider as its caller sees it: every exception of the body
\* is caught inside, so the call always returns.
CallProvider(self, name, kw) == Returned(Provider(self, name, kw))

\* The branch of the if/elif chain taken for function_name (lines 458-486).
Route(function_name) ==
    IF function_name \in KnownFunctions THEN function_name ELSE "unknown"

\* Variant: no try/except around the branches, so a KeyError leaves the
\* dispatcher.
ExecuteFunctionCallNoCatch(self, fc) ==
    IF ~fc.args_present
    THEN [out |-> Raised(Exc("TypeError", <<"'NoneType' object is not iterable">>)),
          calls |-> << >>]
    ELSE
    LET function_name == fc.name
        function_args == fc.args
        branch == Route(function_name)
        missing == FirstMissing(function_args, IndexedKeys(branch))
    IN
    IF branch = "unknown"
    THEN [out |-> Returned([error |-> <<"Unknown function: ", function_name>>]),
          calls |-> << >>]
    ELSE IF missing # None
    THEN [out |-> Raised(Exc("KeyError", <<"'", missing, "'">>)), calls |-> << >>]
    ELSE LET kw == CallArgs(branch, function_args) IN
         [out |-> Returned(Provider(self, branch, kw)),
          calls |-> << ProviderCall(branch, kw) >>]

\* _execute_function_call(function_call): the outcome (a returned dict or a
\* raised exception) and the providers it invoked, in order.
ExecuteFunctionCall(self, fc) ==
    IF ~fc.args_present
    THEN \* line 453, outside the try: dict(None)
         [out |-> Raised(Exc("TypeError", <<"'NoneType' object is not iterable">>)),
          calls |-> << >>]
    ELSE
    LET function_name == fc.name
        function_args == fc.args
        branch == Route(function_name)
        missing == FirstMissing(function_args, IndexedKeys(branch))
    IN
    IF branch = "unknown"
    THEN [out |-> Returned([error |-> <<"Unknown function: ", function_name>>]),
          calls |-> << >>]
    ELSE IF missing # None
    THEN \* KeyError raised in the try, caught at line 488
         [out |-> Returned([error |-> <<"Function execution failed: ">>
                                      \o Exc("KeyError", <<"'", missing, "'">>).msg]),
          calls |-> << >>]
    ELSE LET kw == CallArgs(branch, function_args) IN
         [out |-> Returned(Provider(self, branch, kw)),
          calls |-> << ProviderCall(branch, kw) >>]

-----------------------------------------------------------------------------
(* Inputs: the descriptors and arguments tried *)

Descriptor(name, args) == [name |-> name, args_present |-> TRUE, args |-> args]
\* a descriptor whose args field is unset (reads as None)
BareDescriptor(name) == [name |-> name, args_present |-> FALSE, args |-> << >>]

PrefWords == {"beach", "Beach", "food", "culture", "yoga"}
PrefLists == UNION {[1..n -> PrefWords] : n \in 0..MaxPrefs}
TripDurations == (-1)..MaxDuration
Travelers == 1..MaxTravelers
DateLists == {<< >>, <<"2025-09-15">>, <<"2025-09-15", "2025-09-15">>,
              <<"2025-09-15", "2025-09-16">>}
BudgetCategories == {"budget", "mid-range", "luxury", "premium"}
ReturnDates == {"2025-09-20", ""}
CheckOuts == {"2025-09-16", "2025-09-20"}

FullArgs(name) ==
    CASE name = "getWeather" ->
            {[location |-> "Goa", dates |-> d] : d \in DateLists}
      [] name = "getFlights" ->
            {[from_location |-> "Delhi", to_location |-> "Goa",
              departure_date |-> "2025-09-15", return_date |-> r, travelers |-> t] :
                r \in ReturnDates, t \in Travelers}
      [] name = "getHotels" ->
            {[destination |-> "Goa", check_in |-> "2025-09-15",
              check_out |-> o, travelers |-> t, budget_category |-> b] :
                o \in CheckOuts, t \in Travelers, b \in BudgetCategories}
      [] name = "getAttractions" ->
            {[destination |-> "Goa", preferences |-> p, trip_duration |-> d] :
                p \in PrefLists, d \in TripDurations}
      [] OTHER -> {[destination |-> "Goa"]}

\* Arguments of direct provider calls, ill-typed ones included.
ProviderInputs(name) ==
    CASE name = "getWeather" ->
            {[location |-> "Goa", dates |-> d] : d \in DateLists \cup {NotIterable}}
      [] name = "getFlights" ->
            {[from_location |-> "Delhi", to_location |-> "Goa",
              departure_date |-> "2025-09-15", return_date |-> r, travelers |-> t] :
                r \in ReturnDates \cup {None}, t \in Travelers}
      [] name = "getHotels" ->
            {[destination |-> "Goa", check_in |-> "2025-09-15",
              check_out |-> o, travelers |-> t, budget_category |-> b] :
                o \in CheckOuts, t \in Travelers,
                b \in BudgetCategories \cup Unhashable}
      [] name = "getAttractions" ->
            {[destination |-> "Goa", preferences |-> p, trip_duration |-> d] :
                p \in PrefLists \cup {NotIterable, <<"beach", "<int 7>">>},
                d \in TripDurations}

FunctionNames == KnownFunctions \cup {"getTrains", "getweather"}

\* Every descriptor tried: each full argument mapping with any subset of its
\* keys dropped, and each name without arguments at all.
Descriptors ==
    UNION {UNION {{Descriptor(n, Restrict(a, K)) : K \in SUBSET DOMAIN a} :
                     a \in FullArgs(n)} : n \in FunctionNames}
    \cup {BareDescriptor(n) : n \in FunctionNames}

-----------------------------------------------------------------------------
(* json.loads on token texts.  A Python value is tagged with its type.     *)

PyDict(f) == [t |-> "dict", v |-> f]
PyList(q) == [t |-> "list", v |-> q]
PyStr(x) == [t |-> "str", v |-> x]
PyInt(n) == [t |-> "int", v |-> n]
PyFloat(x) == [t |-> "float", v |-> x]
PyBool(b) == [t |-> "bool", v |-> b]
PyNone == [t |-> "NoneType", v |-> None]

\* JSON string tokens and the Python strings they denote.
StringTokens ==
    [c \in {"\"itinerary\"", "\"error\"", "\"Goa\""} |->
        CASE c = "\"itinerary\"" -> "itinerary"
          [] c = "\"error\"" -> "error"
          [] c = "\"Goa\"" -> "Goa"]
NumberTokens == [c \in {"42"} |-> 42]

Parsed(val, next) == [ok |-> TRUE, val |-> val, next |-> next]
ParseError == [ok |-> FALSE, val |-> PyNone, next |-> 0]

Put(d, k, v) == [x \in (DOMAIN d) \cup {k} |-> IF x = k THEN v ELSE d[x]]

RECURSIVE ParseValue(_, _)
RECURSIVE ParseElems(_, _, _)
RECURSIVE ParseMembers(_, _, _)

\* the value starting at token i
ParseValue(text, i) ==
    IF i > Len(text) THEN ParseError
    ELSE LET c == text[i] IN
         CASE c \in DOMAIN StringTokens -> Parsed(PyStr(StringTokens[c]), i + 1)
           [] c \in DOMAIN NumberTokens -> Parsed(PyInt(NumberTokens[c]), i + 1)
           [] c = "null" -> Parsed(PyNone, i + 1)
           [] c = "true" -> Parsed(PyBool(TRUE), i + 1)
           [] c = "false" -> Parsed(PyBool(FALSE), i + 1)
           [] c = "NaN" -> Parsed(PyFloat("nan"), i + 1)
           [] c = "[" ->
                IF i + 1 <= Len(text) /\ text[i + 1] = "]"
                THEN Parsed(PyList(<< >>), i + 2)
                ELSE ParseElems(text, i + 1, << >>)
           [] c = "{" ->
                IF i + 1 <= Len(text) /\ text[i + 1] = "}"
                THEN Parsed(PyDict(<< >>), i + 2)
                ELSE ParseMembers(text, i + 1, << >>)
           [] OTHER -> ParseError

\* value ( "," value )* "]"
ParseElems(text, i, acc) ==
    LET r == ParseValue(text, i) IN
    IF ~r.ok \/ r.next > Len(text) THEN ParseError
    ELSE IF text[r.next] = "," THEN ParseElems(text, r.next + 1, Append(acc, r.val))
    ELSE IF text[r.next] = "]" THEN Parsed(PyList(Append(acc, r.val)), r.next + 1)
    ELSE ParseError

\* string ":" value ( "," string ":" value )* "}" ; a repeated key keeps the
\* last value
ParseMembers(text, i, acc) ==
    IF i + 1 > Len(text) \/ text[i] \notin DOMAIN StringTokens \/ text[i + 1] # ":"
    THEN ParseError
    ELSE LET r == ParseValue(text, i + 2)
             key == StringTokens[text[i]]
         IN
         IF ~r.ok \/ r.next > Len(text) THEN ParseError
         ELSE IF text[r.next] = "," THEN ParseMembers(text, r.next + 1, Put(acc, key, r.val))
         ELSE IF text[r.next] = "}" THEN Parsed(PyDict(Put(acc, key, r.val)), r.next + 1)
         ELSE ParseError

\* json.loads(text): the value, or JSONDecodeError (also for trailing data)
JsonLoads(text) ==
    LET r == ParseValue(text, 1) IN
    IF r.ok /\ r.next = Len(text) + 1
    THEN Returned(r.val)
    ELSE Raised(Exc("JSONDecodeError", <<"Expecting value">>))

-----------------------------------------------------------------------------
(* Prompt builder (src/prompts.py) *)

RECURSIVE FirstNonText(_, _)
FirstNonText(items, i) ==
    IF i > Len(items) THEN 0
    ELSE IF items[i] \in NonText THEN i
    ELSE FirstNonText(items, i + 1)

\* ", ".join(items) for items that are all str
RECURSIVE Join(_)
Join(items) ==
    IF items = << >> THEN << >>
    ELSE IF Len(items) = 1 THEN <<items[1]>>
    ELSE <<items[1], ", ">> \o Join(Tail(items))

create_user_prompt(from_location, destination, start_date, end_date, travelers, preferences, budget, special_requirements, additional_context) ==
    LET bad == FirstNonText(preferences, 1)
        preferences_str == IF preferences # << >> THEN Join(preferences)
                           ELSE <<"No specific preferences">>
        budget_str == IF budget # None /\ budget # "" THEN budget ELSE "Not specified"
        special_req_str == IF special_requirements # None /\ special_requirements # ""
                           THEN special_requirements ELSE "None"
    IN
    IF bad # 0
    THEN Raised(Exc("TypeError", <<"sequence item ", bad - 1,
                                   ": expected str instance, int found">>))
    ELSE Returned(
            <<"Plan a personalized trip based on the following details: From: ",
              from_location, " Destination: ", destination,
              " Travel Dates: ", start_date, " to ", end_date,
              " Number of Travelers: ", travelers, " Travel Preferences: ">>
            \o preferences_str
            \o <<" Budget Range: ", budget_str, " (if specified)",
                 " Special Requirements: ", special_req_str,
                 " Additional Context: ", additional_context,
                 " Please create a comprehensive travel plan">>)

\* weather_data is a dict or None; dates and activities are lists
create_packing_prompt(destination, dates, weather_data, activities) ==
    LET bad == FirstNonText(activities, 1)
        weather_info == IF weather_data # None
                        THEN <<"Weather forecast: ", weather_data>>
                        ELSE <<"Please check weather forecast">>
        activities_str == IF activities # << >> THEN Join(activities)
                          ELSE <<"General tourism">>
    IN
    IF bad # 0
    THEN Raised(Exc("TypeError", <<"sequence item ", bad - 1,
                                   ": expected str instance, int found">>))
    ELSE IF dates = << >>
    THEN Raised(Exc("IndexError", <<"list index out of range">>))
    ELSE Returned(
            <<"Create a comprehensive packing list for a trip to ", destination,
              " from ", dates[1], " to ", dates[Len(dates)], ". Planned activities: ">>
            \o activities_str \o <<" ">> \o weather_info
            \o <<" Please provide a detailed packing list">>)

-----------------------------------------------------------------------------
(* The AI service as plan_trip sees it through the SDK *)

\* an unset function_call field: the only falsy descriptor
NoCall == BareDescriptor("")
Truthy(fc) == fc.name # "" \/ fc.args_present

TextPart(text) == [is_text |-> TRUE, text |-> text, function_call |-> NoCall]
CallPart(fc) == [is_text |-> FALSE, text |-> << >>, function_call |-> fc]

\* a reply with one candidate holding these parts
Content(parts) == [candidates |-> 1, parts |-> parts]
\* a reply without candidates (a blocked prompt)
Blocked == [candidates |-> 0, parts |-> << >>]
NoResponse == [candidates |-> -1, parts |-> << >>]

\* response.candidates[0].content.parts[0].function_call
FirstFunctionCall(reply) ==
    IF reply.candidates = 0 \/ reply.parts = << >>
    THEN Raised(Exc("IndexError", <<"list index out of range">>))
    ELSE Returned(reply.parts[1].function_call)

RECURSIVE ConcatTexts(_)
ConcatTexts(parts) ==
    IF parts = << >> THEN << >> ELSE Head(parts).text \o ConcatTexts(Tail(parts))

\* response.text: the texts of the parts joined; a part that is not text
\* cannot be converted
ResponseText(reply) ==
    IF reply.parts = << >> \/ \E i \in 1..Len(reply.parts) : ~reply.parts[i].is_text
    THEN Raised(Exc("ValueError", <<"Could not convert part to text">>))
    ELSE Returned(ConcatTexts(reply.parts))

\* Final texts the service may give.
FinalTexts ==
    { <<"not", "json">>,
      << >>,
      <<"{", "\"itinerary\"", ":", "[", "]", "}">>,
      <<"{", "\"itinerary\"", ":", "[", "]">>,
      <<"{", "}">>,
      <<"{", "\"error\"", ":", "\"Goa\"", "}">>,
      <<"{", "}", "{", "}">>,
      <<"[", "]">>,
      <<"[", "42", ",", "]">>,
      <<"[", "{", "\"itinerary\"", ":", "null", "}", ",", "42", "]">>,
      <<"null">>, <<"true">>, <<"42">>, <<"NaN">>, <<"\"Goa\"">> }

\* Function calls the service may request during plan_trip.
ServiceCalls ==
    { Descriptor("getWeather", [location |-> "Goa", dates |-> <<"2025-09-15">>]),
      Descriptor("getHotels", [destination |-> "Goa", check_in |-> "2025-09-15",
                               check_out |-> "2025-09-20", travelers |-> 2]),
      Descriptor("getFlights", [from_location |-> "Delhi", to_location |-> "Goa",
                                departure_date |-> "2025-09-15"]),
      Descriptor("getAttractions", [destination |-> "Goa",
                                    preferences |-> <<"beach">>]),
      Descriptor("getTrains", [destination |-> "Goa"]),
      BareDescriptor("getWeather") }

ServiceReplies ==
    {Content(<<CallPart(fc)>>) : fc \in ServiceCalls}
    \cup {Content(<<CallPart(Descriptor("getWeather",
                                        [location |-> "Goa", dates |-> <<"2025-09-15">>])),
                    CallPart(Descriptor("getAttractions",
                                        [destination |-> "Goa",
                                         preferences |-> <<"beach">>]))>>)}
    \cup {Content(<<TextPart(t)>>) : t \in FinalTexts}
    \cup { Content(<< >>), Blocked,
           Content(<<TextPart(<<"{">>), TextPart(<<"}">>)>>),
           Content(<<TextPart(<<"{", "}">>),
                     CallPart(Descriptor("getTrains", [destination |-> "Goa"]))>>) }

\* Failures of the SDK calls (start_chat, send_message).
ServiceFailures == {Exc("ServiceUnavailable", <<"503 The model is overloaded">>),
                    Exc("DeadlineExceeded", <<"504 Deadline Exceeded">>)}

-----------------------------------------------------------------------------
(* plan_trip *)

Pair(parsed, raw) == [parsed |-> parsed, raw |-> raw]

\* Variant: the error response keeps what the earlier turns obtained.
PlanTripExceptPartial(destination, e) ==
    Returned(Pair(PyDict([error |-> <<"Trip planning failed: ">> \o e.msg,
                          destination |-> destination,
                          status |-> "error",
                          partial_results |-> "kept"]),
                  e.msg))

\* Variant: only ValueError is caught; anything else leaves plan_trip.
PlanTripExceptNarrow(destination, e) ==
    IF e.type = "ValueError"
    THEN Returned(Pair(PyDict([error |-> <<"Trip planning failed: ">> \o e.msg,
                               destination |-> destination,
                               status |-> "error"]),
                       e.msg))
    ELSE Raised(e)

\* The except clause of plan_trip (lines 572-579): every Exception is
\* converted to the error response, returned with str(e).
PlanTripExcept(destination, e) ==
    Returned(Pair(PyDict([error |-> <<"Trip planning failed: ">> \o e.msg,
                          destination |-> destination,
                          status |-> "error"]),
                  e.msg))

\* Variant: the fallback leaves the raw text out.
ParseFinalNoRaw(raw_response) ==
    LET r == JsonLoads(raw_response) IN
    IF r.kind = "return"
    THEN Returned(Pair(r.value, raw_response))
    ELSE Returned(Pair(PyDict([error |-> <<"Failed to parse AI response">>]),
                       raw_response))

\* Variant: the fallback is an empty mapping.
ParseFinalEmpty(raw_response) ==
    LET r == JsonLoads(raw_response) IN
    IF r.kind = "return"
    THEN Returned(Pair(r.value, raw_response))
    ELSE Returned(Pair(PyDict(<< >>), raw_response))

\* Variant: the raw text is returned without its last token.
ParseFinalTrimmed(raw_response) ==
    LET r == JsonLoads(raw_response) IN
    IF r.kind = "return"
    THEN Returned(Pair(r.value, SliceTo(raw_response, -1)))
    ELSE Returned(Pair(PyDict([error |-> <<"Failed to parse AI response">>,
                               raw_response |-> raw_response]),
                       raw_response))

\* Lines 559-570: parse the final text, or wrap it when json.loads raises
\* JSONDecodeError.
ParseFinal(raw_response) ==
    LET r == JsonLoads(raw_response) IN
    IF r.kind = "return"
    THEN Returned(Pair(r.value, raw_response))
    ELSE Returned(Pair(PyDict([error |-> <<"Failed to parse AI response">>,
                               raw_response |-> raw_response]),
                       raw_response))

\* The message sent first (line 537) and the one sent after a dispatch
\* (lines 545-554).
UserMessage(user_prompt) == [kind |-> "text", text |-> user_prompt]

\* Variant: the function response carries the arguments, not the result.
FunctionResponseEcho(name, result) ==
    [kind |-> "function_response", name |-> name, response |-> [result |-> name]]

FunctionResponse(name, result) ==
    [kind |-> "function_response", name |-> name, response |-> result]

NoExc == Exc("none", << >>)
NoResult == [kind |-> "none"]
NoReturn == [op |-> "none"]

\* plan_trip ended: `result` is what the caller gets, `how` the path taken
\* ("parsed", "fallback" or "caught"), `step` and `exc` the step that raised.
Ended(result, how, step, e) ==
    [op |-> "plan_trip", result |-> result, how |-> how, step |-> step, exc |-> e]

Requests ==
    {[from_location |-> "Delhi", destination |-> d, start_date |-> "2025-09-15",
      end_date |-> "2025-09-20", travelers |-> 2, preferences |-> p,
      budget |-> None, special_requirements |-> None, rag_context |-> None] :
        d \in {"Goa", "Leh"}, p \in {<< >>, <<"beach">>, <<"beach", "<int 7>">>}}

\* TravelAssistantPrompts.SYSTEM_PROMPT, by its opening words
SYSTEM_PROMPT == <<"You are a Smart Travel Assistant">>

\* lines 528-531: the list is built and never used
Messages(user_prompt) ==
    << [role |-> "system", parts |-> SYSTEM_PROMPT],
       [role |-> "user", parts |-> user_prompt] >>

\* lines 515-525; preferences None and [] both give [] at line 521
UserPrompt(req) ==
    create_user_prompt(req.from_location, req.destination, req.start_date,
                       req.end_date, req.travelers, req.preferences, req.budget,
                       req.special_requirements,
                       IF req.rag_context = None THEN "" ELSE req.rag_context)

\* Variant: plan_trip clears the weather key of the object.
BeginForgetful(req) ==
    /\ pc = "idle"
    /\ request' = req
    /\ response' = NoResponse
    /\ function_call' = NoCall
    /\ function_result' = NoResult
    /\ calls' = << >>
    /\ turns' = 0
    /\ produced' = 0
    /\ assistant' = [assistant EXCEPT !.weather_api_key = None]
    /\ UNCHANGED sdk

Begin(req) ==
    /\ pc = "idle"
    /\ request' = req
    /\ response' = NoResponse
    /\ function_call' = NoCall
    /\ function_result' = NoResult
    /\ calls' = << >>
    /\ turns' = 0
    /\ produced' = 0
    /\ UNCHANGED <<assistant, sdk>>

Caught(step, e) ==
    /\ pc' = "done"
    /\ ret' = Ended(PlanTripExcept(request'.destination, e), "caught", step, e)

\* create_user_prompt raises
PlanTripPromptFails(req) ==
    /\ Begin(req)
    /\ UserPrompt(req).kind = "raise"
    /\ sent' = << >>
    /\ Caught("prompt", UserPrompt(req).exc)

\* self.model.start_chat() raises
PlanTripChatFails(req, e) ==
    /\ Begin(req)
    /\ UserPrompt(req).kind = "return"
    /\ sent' = << >>
    /\ Caught("start_chat", e)

\* the prompt is built, the chat started and the prompt sent
PlanTripSend(req) ==
    /\ Begin(req)
    /\ UserPrompt(req).kind = "return"
    /\ sent' = << UserMessage(UserPrompt(req).value) >>
    /\ pc' = "awaiting"
    /\ ret' = NoReturn

\* chat.send_message raises
SendFails(e) ==
    /\ pc = "awaiting"
    /\ request' = request
    /\ Caught("send", e)
    /\ UNCHANGED <<assistant, sdk, produced, response, function_call, function_result, calls,
                   sent, turns>>

\* the parts of a reply that carry a function call
RECURSIVE CallParts(_)
CallParts(parts) ==
    IF parts = << >> THEN 0
    ELSE (IF Truthy(Head(parts).function_call) THEN 1 ELSE 0) + CallParts(Tail(parts))

\* chat.send_message returns a reply; the service asks for at most MaxTurns
\* function calls
ServiceReply(r) ==
    /\ pc = "awaiting"
    /\ (FirstFunctionCall(r).kind = "return" /\ Truthy(FirstFunctionCall(r).value))
          => turns < MaxTurns
    /\ response' = r
    /\ produced' = produced + CallParts(r.parts)
    /\ pc' = "loop"
    /\ UNCHANGED <<assistant, sdk, request, function_call, function_result, calls,
                   sent, turns, ret>>

\* the loop condition raises (no candidate, no part)
InspectFails ==
    /\ pc = "loop"
    /\ FirstFunctionCall(response).kind = "raise"
    /\ request' = request
    /\ Caught("inspect", FirstFunctionCall(response).exc)
    /\ UNCHANGED <<assistant, sdk, produced, response, function_call, function_result, calls,
                   sent, turns>>

\* loop body, the dispatcher raises
DispatchRaises ==
    /\ pc = "loop"
    /\ FirstFunctionCall(response).kind = "return"
    /\ Truthy(FirstFunctionCall(response).value)
    /\ LET fc == FirstFunctionCall(response).value
           d == ExecuteFunctionCall(assistant, fc)
       IN /\ d.out.kind = "raise"
          /\ function_call' = fc
          /\ function_result' = d.out
          /\ calls' = d.calls
          /\ request' = request
          /\ Caught("dispatch", d.out.exc)
    /\ UNCHANGED <<assistant, sdk, produced, response, sent, turns>>

\* Variant: the loop gives up after its first round-trip.
DispatchAndSendCapped ==
    /\ pc = "loop"
    /\ FirstFunctionCall(response).kind = "return"
    /\ Truthy(FirstFunctionCall(response).value)
    /\ LET fc == FirstFunctionCall(response).value
           d == ExecuteFunctionCall(assistant, fc)
       IN /\ d.out.kind = "return"
          /\ function_call' = fc
          /\ function_result' = d.out
          /\ calls' = d.calls
          /\ IF turns >= 1
             THEN /\ sent' = sent
                  /\ turns' = turns
                  /\ request' = request
                  /\ Caught("loop", Exc("RuntimeError", <<"too many function calls">>))
             ELSE /\ sent' = Append(sent, FunctionResponse(fc.name, d.out.value))
                  /\ turns' = turns + 1
                  /\ pc' = "awaiting"
                  /\ UNCHANGED <<request, ret>>
    /\ UNCHANGED <<assistant, sdk, produced, response>>

\* Variant: an error payload of the dispatcher ends the invocation.
DispatchAndSendAbort ==
    /\ pc = "loop"
    /\ FirstFunctionCall(response).kind = "return"
    /\ Truthy(FirstFunctionCall(response).value)
    /\ LET fc == FirstFunctionCall(response).value
           d == ExecuteFunctionCall(assistant, fc)
       IN /\ d.out.kind = "return"
          /\ function_call' = fc
          /\ function_result' = d.out
          /\ calls' = d.calls
          /\ IF "error" \in DOMAIN d.out.value
             THEN /\ sent' = sent
                  /\ turns' = turns
                  /\ request' = request
                  /\ Caught("dispatch", Exc("RuntimeError", d.out.value.error))
             ELSE /\ sent' = Append(sent, FunctionResponse(fc.name, d.out.value))
                  /\ turns' = turns + 1
                  /\ pc' = "awaiting"
                  /\ UNCHANGED <<request, ret>>
    /\ UNCHANGED <<assistant, sdk, produced, response>>

\* loop body: dispatch, then send the result back
DispatchAndSend ==
    /\ pc = "loop"
    /\ FirstFunctionCall(response).kind = "return"
    /\ Truthy(FirstFunctionCall(response).value)
    /\ LET fc == FirstFunctionCall(response).value
           d == ExecuteFunctionCall(assistant, fc)
       IN /\ d.out.kind = "return"
          /\ function_call' = fc
          /\ function_result' = d.out
          /\ calls' = d.calls
          /\ sent' = Append(sent, FunctionResponse(fc.name, d.out.value))
    /\ turns' = turns + 1
    /\ pc' = "awaiting"
    /\ UNCHANGED <<assistant, sdk, produced, request, response, ret>>

\* loop left, response.text raises
FinalTextFails ==
    /\ pc = "loop"
    /\ FirstFunctionCall(response).kind = "return"
    /\ ~Truthy(FirstFunctionCall(response).value)
    /\ ResponseText(response).kind = "raise"
    /\ request' = request
    /\ Caught("text", ResponseText(response).exc)
    /\ UNCHANGED <<assistant, sdk, produced, response, function_call, function_result, calls,
                   sent, turns>>

\* loop left, the final text is parsed and returned
FinalParse ==
    /\ pc = "loop"
    /\ FirstFunctionCall(response).kind = "return"
    /\ ~Truthy(FirstFunctionCall(response).value)
    /\ ResponseText(response).kind = "return"
    /\ LET raw_response == ResponseText(response).value IN
       ret' = Ended(ParseFinal(raw_response),
                    IF JsonLoads(raw_response).kind = "return" THEN "parsed"
                    ELSE "fallback",
                    "none", NoExc)
    /\ pc' = "done"
    /\ UNCHANGED <<assistant, sdk, produced, request, response, function_call, function_result,
                   calls, sent, turns>>

\* a direct call of _execute_function_call(fc)
DirectDispatch(fc) ==
    /\ pc = "idle"
    /\ LET d == ExecuteFunctionCall(assistant, fc) IN
          /\ function_call' = fc
          /\ function_result' = d.out
          /\ calls' = d.calls
    /\ pc' = "dispatched"
    /\ ret' = [op |-> "_execute_function_call"]
    /\ UNCHANGED <<assistant, sdk, produced, request, response, sent, turns>>

\* a direct call of one of the four providers
DirectProvider(name, kw) ==
    /\ pc = "idle"
    /\ pc' = "called"
    /\ ret' = [op |-> "provider", name |-> name, kwargs |-> kw,
               result |-> CallProvider(assistant, name, kw)]
    /\ UNCHANGED <<assistant, sdk, produced, request, response, function_call, function_result,
                   calls, sent, turns>>

\* Arguments of direct calls of the prompt builder.
PromptInputs ==
    {[from_location |-> "Delhi", destination |-> "Goa", start_date |-> "2025-09-15",
      end_date |-> "2025-09-20", travelers |-> 2, preferences |-> p,
      budget |-> b, special_requirements |-> q, additional_context |-> c] :
        p \in {<< >>, <<"beach">>, <<"beach", "food">>, <<"beach", "<int 7>">>},
        b \in {None, "", "moderate"}, q \in {None, "vegetarian"},
        c \in {"", "monsoon advisory"}}

\* a direct call of TravelAssistantPrompts.create_user_prompt
DirectPrompt(a) ==
    /\ pc = "idle"
    /\ pc' = "built"
    /\ ret' = [op |-> "create_user_prompt", args |-> a,
               result |-> create_user_prompt(a.from_location, a.destination,
                             a.start_date, a.end_date, a.travelers, a.preferences,
                             a.budget, a.special_requirements, a.additional_context)]
    /\ UNCHANGED <<assistant, sdk, produced, request, response, function_call, function_result,
                   calls, sent, turns>>

-----------------------------------------------------------------------------
(* get_packing_list *)

PackingInputs ==
    {[destination |-> d, dates |-> ds, activities |-> a, weather_data |-> w] :
        d \in {"Goa", "Leh"},
        ds \in {<< >>, <<"2025-09-15">>, <<"2025-09-15", "2025-09-20">>},
        a \in {<< >>, <<"trekking">>, <<"trekking", "<int 7>">>},
        w \in {None, "{'summary': 'Sunny'}"}}

PackingPrompt(inp) ==
    create_packing_prompt(inp.destination, inp.dates, inp.weather_data, inp.activities)

\* Variant: the default list is returned without the destination.
PackingFallbackBare(destination) ==
    PyDict([packing_list |-> <<"Comfortable walking shoes", "Sunscreen and sunglasses",
                               "Weather-appropriate clothing", "Travel documents and ID",
                               "Phone charger and power bank", "First aid kit",
                               "Camera or smartphone", "Travel adapter (if needed)">>,
            weather_considerations |-> "Pack according to local weather conditions"])

\* lines 611-624
PackingFallback(destination) ==
    PyDict([packing_list |-> <<"Comfortable walking shoes", "Sunscreen and sunglasses",
                               "Weather-appropriate clothing", "Travel documents and ID",
                               "Phone charger and power bank", "First aid kit",
                               "Camera or smartphone", "Travel adapter (if needed)">>,
            destination |-> destination,
            weather_considerations |-> "Pack according to local weather conditions"])

\* lines 628-633
PackingExcept(destination, e) ==
    PyDict([error |-> <<"Failed to generate packing list: ">> \o e.msg,
            destination |-> destination])

\* get_packing_list ended: `how` is "parsed", "fallback" or "caught"
Packed(result, how, step, e) ==
    [op |-> "get_packing_list", result |-> Returned(result), how |-> how,
     step |-> step, exc |-> e]

PackingBegin(inp) ==
    /\ pc = "idle"
    /\ request' = inp
    /\ UNCHANGED <<assistant, sdk, produced, response, function_call,
                   function_result, calls, turns>>

\* create_packing_prompt raises
PackingPromptFails(inp) ==
    /\ PackingBegin(inp)
    /\ PackingPrompt(inp).kind = "raise"
    /\ sent' = << >>
    /\ pc' = "packed"
    /\ ret' = Packed(PackingExcept(inp.destination, PackingPrompt(inp).exc),
                     "caught", "prompt", PackingPrompt(inp).exc)

\* the prompt is built and handed to model.generate_content
PackingSend(inp) ==
    /\ PackingBegin(inp)
    /\ PackingPrompt(inp).kind = "return"
    /\ sent' = << UserMessage(PackingPrompt(inp).value) >>
    /\ pc' = "generating"
    /\ ret' = NoReturn

\* model.generate_content raises
PackingGenerateFails(e) ==
    /\ pc = "generating"
    /\ pc' = "packed"
    /\ ret' = Packed(PackingExcept(request.destination, e), "caught", "send", e)
    /\ UNCHANGED <<assistant, sdk, produced, request, response, function_call,
                   function_result, calls, sent, turns>>

\* model.generate_content returns reply r; lines 607-626
PackingReply(r) ==
    /\ pc = "generating"
    /\ response' = r
    /\ pc' = "packed"
    /\ ret' = IF ResponseText(r).kind = "raise"
              THEN Packed(PackingExcept(request.destination, ResponseText(r).exc),
                          "caught", "text", ResponseText(r).exc)
              ELSE IF JsonLoads(ResponseText(r).value).kind = "return"
              THEN Packed(JsonLoads(ResponseText(r).value).value,
                          "parsed", "none", NoExc)
              ELSE Packed(PackingFallback(request.destination),
                          "fallback", "none", NoExc)
    /\ UNCHANGED <<assistant, sdk, produced, request, function_call,
                   function_result, calls, sent, turns>>

NoRequest ==
    CHOOSE r \in Requests : r.destination = "Goa" /\ r.preferences = << >>

\* The operation has returned to its caller; its locals are gone.
Return ==
    /\ pc \in {"done", "dispatched", "called", "built", "constructed", "packed"}
    /\ assistant.cls = "GeminiTravelAssistant"
    /\ pc' = "idle"
    /\ request' = NoRequest
    /\ response' = NoResponse
    /\ function_call' = NoCall
    /\ function_result' = NoResult
    /\ calls' = << >>
    /\ sent' = << >>
    /\ turns' = 0
    /\ ret' = NoReturn
    /\ produced' = 0
    /\ UNCHANGED <<assistant, sdk>>

-----------------------------------------------------------------------------

(* Construction (both classes run the same key check) *)

Classes == {"GeminiTravelAssistant", "StructuredOutputTravelAssistant"}

\* a key as an argument or in the environment: absent, empty or set
ApiKeyArgs == {None, "", "arg-key"}
WeatherKeyArgs == {None, "weather-key"}
Environments ==
    {[GEMINI_API_KEY |-> g, WEATHER_API_KEY |-> w] :
        g \in {None, "", "env-key"}, w \in {None, "weather-key"}}

\* Python truthiness of an optional str
Given(key) == key # None /\ key # ""

\* Variant: the environment is consulted first.
OrGetenvEnvFirst(arg, env_value) == IF Given(env_value) THEN env_value ELSE arg

\* arg or os.getenv(NAME)
OrGetenv(arg, env_value) == IF Given(arg) THEN arg ELSE env_value

Unconstructed == [cls |-> None, api_key |-> None, weather_api_key |-> None]
NoSdk == [configured |-> None, models |-> 0]

Constructing(cls, api_key, weather_api_key, env, outcome) ==
    [op |-> "__init__", cls |-> cls, api_key |-> api_key,
     weather_api_key |-> weather_api_key, env |-> env, result |-> outcome]

\* cls(api_key, weather_api_key) run in environment env
Construct(cls, api_key, weather_api_key, env) ==
    /\ pc = "start"
    /\ LET key == OrGetenv(api_key, env.GEMINI_API_KEY) IN
       IF ~Given(key)
       THEN /\ pc' = "failed"
            /\ ret' = Constructing(cls, api_key, weather_api_key, env,
                          Raised(Exc("ValueError",
                             <<"Gemini API key must be provided or set in GEMINI_API_KEY environment variable">>)))
            /\ UNCHANGED <<assistant, sdk>>
       ELSE /\ pc' = "constructed"
            /\ sdk' = [configured |-> key, models |-> sdk.models + 1]
            /\ assistant' =
                  [cls |-> cls, api_key |-> key,
                   weather_api_key |->
                      IF cls = "GeminiTravelAssistant"
                      THEN OrGetenv(weather_api_key, env.WEATHER_API_KEY)
                      ELSE None]
            /\ ret' = Constructing(cls, api_key, weather_api_key, env, Returned(None))
    /\ UNCHANGED <<request, response, function_call, function_result, calls,
                   sent, turns, produced>>

Init ==
    /\ assistant = Unconstructed
    /\ sdk = NoSdk
    /\ pc = "start"
    /\ request = NoRequest
    /\ response = NoResponse
    /\ function_call = NoCall
    /\ function_result = NoResult
    /\ calls = << >>
    /\ sent = << >>
    /\ turns = 0
    /\ produced = 0
    /\ ret = NoReturn

Next ==
    \/ \E cls \in Classes, k \in ApiKeyArgs, w \in WeatherKeyArgs, env \in Environments :
          Construct(cls, k, w, env)
    \/ \E req \in Requests : PlanTripPromptFails(req)
    \/ \E req \in Requests, e \in ServiceFailures : PlanTripChatFails(req, e)
    \/ \E req \in Requests : PlanTripSend(req)
    \/ \E e \in ServiceFailures : SendFails(e)
    \/ \E r \in ServiceReplies : ServiceReply(r)
    \/ InspectFails
    \/ DispatchRaises
    \/ DispatchAndSend
    \/ FinalTextFails
    \/ FinalParse
    \/ Return
    \/ \E fc \in Descriptors : DirectDispatch(fc)
    \/ \E name \in KnownFunctions : \E kw \in ProviderInputs(name) :
          DirectProvider(name, kw)
    \/ \E a \in PromptInputs : DirectPrompt(a)
    \/ \E inp \in PackingInputs : PackingPromptFails(inp)
    \/ \E inp \in PackingInputs : PackingSend(inp)
    \/ \E e \in ServiceFailures : PackingGenerateFails(e)
    \/ \E r \in ServiceReplies : PackingReply(r)

Spec == Init /\ [][Next]_vars

\* plan_trip's own steps after a reply, and the steps of the service
LoopSteps ==
    InspectFails \/ DispatchRaises \/ DispatchAndSend \/ FinalTextFails \/ FinalParse
ServiceSteps ==
    \/ \E e \in ServiceFailures : SendFails(e)
    \/ \E r \in ServiceReplies : ServiceReply(r)

\* GeminiTravelAssistant(api_key="arg-key") has been constructed in an
\* environment without keys
LoopInit ==
    /\ assistant = [cls |-> "GeminiTravelAssistant", api_key |-> "arg-key",
                    weather_api_key |-> None]
    /\ sdk = [configured |-> "arg-key", models |-> 1]
    /\ pc = "idle"
    /\ request = NoRequest
    /\ response = NoResponse
    /\ function_call = NoCall
    /\ function_result = NoResult
    /\ calls = << >>
    /\ sent = << >>
    /\ turns = 0
    /\ produced = 0
    /\ ret = NoReturn

\* the caller does nothing but plan trips
LoopNext ==
    \/ \E req \in Requests : PlanTripPromptFails(req)
    \/ \E req \in Requests, e \in ServiceFailures : PlanTripChatFails(req, e)
    \/ \E req \in Requests : PlanTripSend(req)
    \/ \E e \in ServiceFailures : SendFails(e)
    \/ \E r \in ServiceReplies : ServiceReply(r)
    \/ InspectFails
    \/ DispatchRaises
    \/ DispatchAndSend
    \/ FinalTextFails
    \/ FinalParse
    \/ Return

\* plan_trip runs on once called, and the service answers every message
FairSpec ==
    LoopInit /\ [][LoopNext]_vars /\ WF_vars(LoopSteps) /\ WF_vars(ServiceSteps)

-----------------------------------------------------------------------------
(* Properties *)

\* a dispatcher call has completed and its outcome is in function_result
Dispatched == function_result.kind # "none"

\* plan_trip has ended after reading a final text
FinalText == ResponseText(response).value
EndedOnText == pc = "done" /\ ret.how \in {"parsed", "fallback"}

\* C1: plan_trip never raises to its caller; when a step raised exception e
\* it returns ({error: "Trip planning failed: <str(e)>", destination,
\* status: "error"}, str(e)).
C1_NeverRaises ==
    pc = "done" =>
        /\ ret.result.kind = "return"
        /\ ret.how = "caught" =>
              /\ ret.exc # NoExc
              /\ ret.result.value.raw = ret.exc.msg
              /\ ret.result.value.parsed =
                    PyDict([error |-> <<"Trip planning failed: ">> \o ret.exc.msg,
                            destination |-> request.destination,
                            status |-> "error"])

\* a send to the service failed after a dispatcher round-trip, for "Leh"
C1_Witness ==
    /\ pc = "done"
    /\ ret.how = "caught"
    /\ ret.step = "send"
    /\ turns >= 1
    /\ request.destination = "Leh"
    /\ ret.result.value.raw = <<"503 The model is overloaded">>

\* C2: whatever plan_trip's outcome, the first element of the returned pair
\* is a mapping (a dict), never a list, string, number, boolean or null.
C2_AlwaysMapping ==
    pc = "done" =>
        /\ ret.result.kind = "return"
        /\ ret.result.value.parsed.t = "dict"

\* C3: for every descriptor with an unknown name the dispatcher returns
\* {error: "Unknown function: <name>"}, raises nothing, invokes no provider.
C3_UnknownFunction ==
    (Dispatched /\ function_call.name \notin KnownFunctions) =>
        /\ function_result = Returned([error |-> <<"Unknown function: ",
                                                   function_call.name>>])
        /\ calls = << >>

\* the fields the claim C4 lists as required
ListedRequired(name) ==
    CASE name = "getWeather" -> {"location", "dates"}
      [] name = "getFlights" -> {"from_location", "to_location", "departure_date"}
      [] name = "getHotels" -> {"destination", "check_in", "check_out"}
      [] name = "getAttractions" -> {"destination", "preferences"}

DeclaredRequired(name) ==
    CASE name = "getWeather" -> {"location", "dates"}
      [] name = "getFlights" ->
            {"from_location", "to_location", "departure_date", "travelers"}
      [] name = "getHotels" -> {"destination", "check_in", "check_out", "travelers"}
      [] name = "getAttractions" -> {"destination", "preferences"}

\* C5: a known function with all required arguments present: exactly one
\* provider call, of the provider named, with the argument values of the
\* descriptor, and the dispatcher returns that provider's result unchanged.
C5_RoutesToProvider ==
    (/\ Dispatched
     /\ function_call.args_present
     /\ function_call.name \in KnownFunctions
     /\ DeclaredRequired(function_call.name) \subseteq DOMAIN function_call.args) =>
        LET a == function_call.args
            n == function_call.name
        IN
        /\ Len(calls) = 1
        /\ calls[1].provider = n
        /\ \A k \in DOMAIN a : k \in DOMAIN calls[1].kwargs => calls[1].kwargs[k] = a[k]
        /\ DeclaredRequired(n) \subseteq DOMAIN calls[1].kwargs
        /\ function_result.kind = "return"
        /\ n = "getWeather" =>
              function_result.value = getWeather(assistant, a["location"], a["dates"])
        /\ n = "getFlights" =>
              function_result.value =
                 getFlights(a["from_location"], a["to_location"], a["departure_date"],
                            calls[1].kwargs.return_date, a["travelers"])
        /\ n = "getHotels" =>
              function_result.value =
                 getHotels(a["destination"], a["check_in"], a["check_out"],
                           a["travelers"], calls[1].kwargs.budget_category)
        /\ n = "getAttractions" =>
              function_result.value =
                 getAttractions(a["destination"], a["preferences"],
                                calls[1].kwargs.trip_duration)

\* a complete getFlights descriptor was dispatched to getFlights
C5_Witness ==
    /\ Dispatched
    /\ function_call.args_present
    /\ function_call.name = "getFlights"
    /\ DOMAIN function_call.args = {"from_location", "to_location", "departure_date",
                                    "return_date", "travelers"}
    /\ function_call.args["travelers"] = 2
    /\ Len(calls) = 1
    /\ calls[1].provider = "getFlights"
    /\ function_result.value.search_criteria.from = "Delhi"

\* C6: a final text that json.loads rejects is returned as
\* ({error: "Failed to parse AI response", raw_response: <text>}, <text>).
C6_ParseFallback ==
    (/\ pc = "done"
     /\ FirstFunctionCall(response).kind = "return"
     /\ ~Truthy(FirstFunctionCall(response).value)
     /\ ResponseText(response).kind = "return"
     /\ JsonLoads(FinalText).kind = "raise") =>
        ret.result =
           Returned(Pair(PyDict([error |-> <<"Failed to parse AI response">>,
                                 raw_response |-> FinalText]),
                         FinalText))

\* the final reply "not json"
C6_Witness ==
    /\ pc = "done"
    /\ response = Content(<<TextPart(<<"not", "json">>)>>)
    /\ ret.result.value.parsed =
          PyDict([error |-> <<"Failed to parse AI response">>,
                  raw_response |-> <<"not", "json">>])
    /\ ret.result.value.raw = <<"not", "json">>

\* has the Python value this key (false of anything but a dict)
HasKey(value, key) == value.t = "dict" /\ key \in DOMAIN value.v

\* C7 as stated: after a final text the output is a mapping holding
\* "itinerary" whenever parsing succeeds and "error" whenever it does not.
C7_ItineraryOrError ==
    EndedOnText =>
        /\ JsonLoads(FinalText).kind = "return" =>
              HasKey(ret.result.value.parsed, "itinerary")
        /\ JsonLoads(FinalText).kind = "raise" =>
              HasKey(ret.result.value.parsed, "error")

\* C7 amended: the output is a mapping holding "error" whenever parsing does
\* not succeed; whenever it succeeds the output is the parsed value itself,
\* which holds "itinerary" exactly when the final text is a JSON object with
\* that member.
C7_ErrorOrParsedValue ==
    EndedOnText =>
        /\ JsonLoads(FinalText).kind = "raise" =>
              HasKey(ret.result.value.parsed, "error")
        /\ JsonLoads(FinalText).kind = "return" =>
              /\ ret.result.value.parsed = JsonLoads(FinalText).value
              /\ HasKey(ret.result.value.parsed, "itinerary")
                    <=> (/\ FinalText # << >>
                         /\ FinalText[1] = "{"
                         /\ \E i \in 2..Len(FinalText) :
                               FinalText[i] = "\"itinerary\"")

\* the final text {} parsed: a mapping without itinerary and without error
C7_Witness ==
    /\ EndedOnText
    /\ FinalText = <<"{", "}">>
    /\ ret.how = "parsed"
    /\ ret.result.value.parsed.t = "dict"
    /\ DOMAIN ret.result.value.parsed.v = {}

\* C8: when the final text parses, plan_trip returns (parsed, raw) with raw
\* the text of the last reply and parsed the JSON value of that text.
C8_ParsedAndRaw ==
    (/\ pc = "done"
     /\ FirstFunctionCall(response).kind = "return"
     /\ ~Truthy(FirstFunctionCall(response).value)
     /\ ResponseText(response).kind = "return"
     /\ JsonLoads(FinalText).kind = "return") =>
        /\ ret.result.kind = "return"
        /\ ret.result.value.raw = FinalText
        /\ ret.result.value.parsed = JsonLoads(FinalText).value
        /\ \A m \in 1..Len(sent) :
              sent[m].kind = "text" => ret.result.value.raw # sent[m].text
        /\ FinalText = <<"{", "\"itinerary\"", ":", "[", "]", "}">> =>
              ret.result.value.parsed = PyDict([itinerary |-> PyList(<< >>)])
        /\ FinalText = <<"42">> => ret.result.value.parsed = PyInt(42)

\* {"itinerary": []} returned after two dispatcher round-trips
C8_Witness ==
    /\ pc = "done"
    /\ turns = 2
    /\ ret.how = "parsed"
    /\ ret.result.value.raw = <<"{", "\"itinerary\"", ":", "[", "]", "}">>
    /\ ret.result.value.parsed = PyDict([itinerary |-> PyList(<< >>)])

\* the base price the claim C9 gives for a budget category
ListedBase(budget_category) ==
    CASE budget_category = "budget" -> 1500
      [] budget_category = "mid-range" -> 3000
      [] budget_category = "luxury" -> 8000
      [] OTHER -> 3000

\* round(n * 1.3) for n >= 0: 13n/10 to the nearest integer, ties to even
Round13(n) ==
    LET q == (13 * n) \div 10
        r == (13 * n) % 10
    IN IF r > 5 \/ (r = 5 /\ q % 2 = 1) THEN q + 1 ELSE q

\* C9: getHotels returns exactly two offers, priced base and
\* round(base * 1.3) by the budget category alone (1500/1950, 3000/3900,
\* 8000/10400, and 3000/3900 for an unrecognized category).
C9_HotelPrices ==
    (Dispatched /\ Len(calls) = 1 /\ calls[1].provider = "getHotels") =>
        LET b == calls[1].kwargs.budget_category
            hotels == function_result.value.hotels
        IN
        /\ Len(hotels) = 2
        /\ hotels[1].price_per_night = <<"Rs", ListedBase(b)>>
        /\ hotels[2].price_per_night = <<"Rs", Round13(ListedBase(b))>>
        /\ hotels[2].price_per_night \in {<<"Rs", 1950>>, <<"Rs", 3900>>, <<"Rs", 10400>>}
        /\ b = "luxury" => hotels[2].price_per_night = <<"Rs", 10400>>
        /\ b = "budget" => hotels[2].price_per_night = <<"Rs", 1950>>

\* a luxury stay for the largest party and the shorter stay
C9_Witness ==
    /\ Dispatched
    /\ Len(calls) = 1
    /\ calls[1].provider = "getHotels"
    /\ calls[1].kwargs.budget_category = "luxury"
    /\ calls[1].kwargs.travelers = MaxTravelers
    /\ calls[1].kwargs.check_out = "2025-09-16"
    /\ function_result.value.hotels[1].price_per_night = <<"Rs", 8000>>
    /\ function_result.value.hotels[2].price_per_night = <<"Rs", 10400>>

\* the first two attractions of each category, as the claim C10 builds L
FirstTwo(category) ==
    CASE category = "beach" -> <<"Baga Beach", "Calangute Beach">>
      [] category = "culture" -> <<"Old Goa Churches", "Goa State Museum">>
      [] category = "adventure" -> <<"Water Sports at Baga", "Scuba Diving">>
      [] category = "food" -> <<"Thalassa Restaurant", "Fisherman's Wharf">>
      [] category = "nightlife" -> <<"Club Cubana", "Tito's">>
      [] category = "shopping" -> <<"Anjuna Flea Market", "Mapusa Market">>
      [] OTHER -> << >>

\* the category a preference matches ignoring case ("" when none)
Matching(pref) ==
    CASE pref \in {"beach", "Beach"} -> "beach"
      [] pref = "food" -> "food"
      [] pref = "culture" -> "culture"
      [] OTHER -> ""

RECURSIVE ListL(_)
ListL(preferences) ==
    IF preferences = << >> THEN <<"Fort Aguada", "Dudhsagar Falls">>
    ELSE FirstTwo(Matching(Head(preferences))) \o ListL(Tail(preferences))

\* C10: for trip_duration >= 0, recommended_attractions is the first
\* 2 x trip_duration elements of L; so at most 2 x trip_duration long, and
\* for [beach, food] and 2 days it has 4 entries, from both categories.
C10_Recommended ==
    (/\ Dispatched /\ Len(calls) = 1 /\ calls[1].provider = "getAttractions"
     /\ calls[1].kwargs.trip_duration >= 0) =>
        LET prefs == calls[1].kwargs.preferences
            d == calls[1].kwargs.trip_duration
            rec == function_result.value.recommended_attractions
            L == ListL(prefs)
        IN
        /\ Len(rec) = Min(2 * d, Len(L))
        /\ \A i \in 1..Len(rec) : rec[i] = L[i]
        /\ Len(rec) <= 2 * d
        /\ (prefs = <<"beach", "food">> /\ d = 2) =>
              /\ Len(rec) <= 4
              /\ \E i \in 1..Len(rec) : rec[i] \in {"Baga Beach", "Calangute Beach",
                                                    "Anjuna Beach"}
              /\ \E i \in 1..Len(rec) : rec[i] \in {"Thalassa Restaurant",
                                                    "Fisherman's Wharf",
                                                    "Local Fish Markets"}

\* [beach, food] for 2 days: the universal attractions are truncated away
C10_Witness ==
    /\ Dispatched
    /\ Len(calls) = 1
    /\ calls[1].provider = "getAttractions"
    /\ calls[1].kwargs.preferences = <<"beach", "food">>
    /\ calls[1].kwargs.trip_duration = 2
    /\ function_result.value.recommended_attractions =
          <<"Baga Beach", "Calangute Beach", "Thalassa Restaurant", "Fisherman's Wharf">>

\* a provider has been called, directly or by the dispatcher
Called(name) ==
    \/ pc = "called" /\ ret.name = name
    \/ Dispatched /\ Len(calls) = 1 /\ calls[1].provider = name
CalledArgs == IF pc = "called" THEN ret.kwargs ELSE calls[1].kwargs
CalledResult == IF pc = "called" THEN ret.result ELSE function_result

\* C11: for n >= 1 travelers getFlights prices every offer at base fare x n
\* (outbound 4500 and 5200, return 4800); the outbound list has two offers
\* and the return list is non-empty exactly when a return date is given.
C11_FlightPrices ==
    (Called("getFlights") /\ CalledArgs.travelers >= 1) =>
        LET n == CalledArgs.travelers
            out == CalledResult.value.outbound_flights
            back == CalledResult.value.return_flights
            given == CalledArgs.return_date \notin {None, ""}
        IN
        /\ CalledResult.kind = "return"
        /\ Len(out) = 2
        /\ out[1].price = <<"Rs", 4500 * n>>
        /\ out[2].price = <<"Rs", 5200 * n>>
        /\ n = 2 => out[1].price = <<"Rs", 9000>>
        /\ given <=> back # << >>
        /\ \A i \in 1..Len(back) : back[i].price = <<"Rs", 4800 * n>>
        /\ Len(back) <= 1

\* two travelers with a return date: 9000, 10400 and 9600
C11_Witness ==
    /\ Called("getFlights")
    /\ CalledArgs.travelers = 2
    /\ CalledArgs.return_date = "2025-09-20"
    /\ CalledResult.value.outbound_flights[1].price = <<"Rs", 9000>>
    /\ CalledResult.value.outbound_flights[2].price = <<"Rs", 10400>>
    /\ CalledResult.value.return_flights[1].price = <<"Rs", 9600>>

\* C12: for every list of dates getWeather returns one forecast entry per
\* date, in order and for that date, with a summary and without an error key.
C12_ForecastPerDate ==
    (Called("getWeather") /\ CalledArgs.dates # NotIterable) =>
        LET dates == CalledArgs.dates
            w == CalledResult.value
        IN
        /\ CalledResult.kind = "return"
        /\ "error" \notin DOMAIN w
        /\ "summary" \in DOMAIN w
        /\ w.summary # << >>
        /\ Len(w.forecast) = Len(dates)
        /\ \A i \in 1..Len(dates) : w.forecast[i].date = dates[i]

\* a repeated date, with a weather key configured
C12_Witness ==
    /\ Called("getWeather")
    /\ assistant.weather_api_key # None
    /\ CalledArgs.dates = <<"2025-09-15", "2025-09-15">>
    /\ Len(CalledResult.value.forecast) = 2
    /\ CalledResult.value.forecast[2].date = "2025-09-15"

\* the text "Unable to fetch <x> data" and "<X> information unavailable"
UnableToFetch(name) ==
    CASE name = "getWeather" -> <<"Unable to fetch weather data">>
      [] name = "getFlights" -> <<"Unable to fetch flight data">>
      [] name = "getHotels" -> <<"Unable to fetch hotel data">>
      [] name = "getAttractions" -> <<"Unable to fetch attractions data">>
Unavailable(name) ==
    CASE name = "getWeather" -> <<"Weather information unavailable">>
      [] name = "getFlights" -> <<"Flight information unavailable">>
      [] name = "getHotels" -> <<"Hotel information unavailable">>
      [] name = "getAttractions" -> <<"Attractions information unavailable">>

\* the key only a success payload of the provider has
PayloadKey(name) ==
    CASE name = "getWeather" -> "forecast"
      [] name = "getFlights" -> "outbound_flights"
      [] name = "getHotels" -> "hotels"
      [] name = "getAttractions" -> "recommended_attractions"

\* C13: no provider propagates an exception: for every argument value,
\* ill-typed ones included, a provider call returns its success payload or
\* its own error descriptor {error: "Unable to fetch <X> data", summary:
\* "<X> information unavailable"}.
C13_ProvidersNeverRaise ==
    \A name \in KnownFunctions :
        Called(name) =>
            /\ CalledResult.kind = "return"
            /\ \/ PayloadKey(name) \in DOMAIN CalledResult.value
               \/ /\ "error" \in DOMAIN CalledResult.value
                  /\ CalledResult.value.error = UnableToFetch(name)
                  /\ CalledResult.value.summary = Unavailable(name)
            /\ (pc = "called" /\ BodyRaises(name, CalledArgs)) =>
                  "error" \in DOMAIN CalledResult.value

\* getAttractions called with a preference that is not text
C13_Witness ==
    /\ pc = "called"
    /\ ret.name = "getAttractions"
    /\ ret.kwargs.preferences = <<"beach", "<int 7>">>
    /\ ret.result = Returned([error |-> <<"Unable to fetch attractions data">>,
                              summary |-> <<"Attractions information unavailable">>])

\* the fields the claim C17 calls optional
Optional(name) ==
    CASE name = "getFlights" -> {"return_date", "travelers"}
      [] name = "getHotels" -> {"travelers", "budget_category"}
      [] name = "getAttractions" -> {"trip_duration"}
      [] OTHER -> {}

\* the documented default of an optional field
Default(k) ==
    CASE k = "travelers" -> 1
      [] k = "budget_category" -> "mid-range"
      [] k = "trip_duration" -> 3
      [] k = "return_date" -> None

\* a descriptor of a known function that carries every field but, possibly,
\* optional ones
OnlyOptionalAbsent ==
    /\ Dispatched
    /\ function_call.args_present
    /\ function_call.name \in KnownFunctions
    /\ ListedRequired(function_call.name) \subseteq DOMAIN function_call.args

AbsentOptional == Optional(function_call.name) \ DOMAIN function_call.args

\* C17 as stated: with an optional field absent the dispatcher still calls
\* the provider, with travelers = 1, budget_category = "mid-range",
\* trip_duration = 3, return_date absent, and returns its success payload.
C17_DefaultsForAll ==
    (OnlyOptionalAbsent /\ AbsentOptional # {}) =>
        /\ Len(calls) = 1
        /\ calls[1].provider = function_call.name
        /\ \A k \in AbsentOptional : calls[1].kwargs[k] = Default(k)
        /\ function_result.kind = "return"
        /\ PayloadKey(function_call.name) \in DOMAIN function_result.value

\* C17: with budget_category, trip_duration or return_date absent (and
\* travelers given) the dispatcher calls the provider with "mid-range", 3
\* and no return date and returns its success payload; with travelers
\* absent it calls no provider and returns
\* {error: "Function execution failed: 'travelers'"}.
C17_DefaultsButTravelers ==
    (OnlyOptionalAbsent /\ AbsentOptional # {}) =>
        IF "travelers" \in AbsentOptional
        THEN /\ calls = << >>
             /\ function_result =
                  Returned([error |-> <<"Function execution failed: ",
                                        "'", "travelers", "'">>])
        ELSE /\ Len(calls) = 1
             /\ calls[1].provider = function_call.name
             /\ \A k \in AbsentOptional : calls[1].kwargs[k] = Default(k)
             /\ function_result.kind = "return"
             /\ PayloadKey(function_call.name) \in DOMAIN function_result.value

\* getHotels asked without a budget category: priced as mid-range
C17_Witness ==
    /\ OnlyOptionalAbsent
    /\ function_call.name = "getHotels"
    /\ AbsentOptional = {"budget_category"}
    /\ Len(calls) = 1
    /\ calls[1].kwargs.budget_category = "mid-range"
    /\ function_result.value.hotels[1].price_per_night = <<"Rs", 3000>>

\* C18: the dispatcher never raises: for every descriptor, arguments missing
\* or not a mapping included, an exception raised while handling it is
\* returned as {error: "Function execution failed: <message>"}.
C18_DispatcherNeverRaises ==
    Dispatched =>
        /\ function_result.kind = "return"
        /\ (function_call.name \in KnownFunctions /\ calls = << >>) =>
              /\ DOMAIN function_result.value = {"error"}
              /\ Head(function_result.value.error) = "Function execution failed: "

\* does text, counted from its end, carry label at position k and value
\* right after it (the text ends with eight tokens: the budget label and
\* value, "(if specified)", the requirements label and value, the context
\* label and value, and the closing request)
Field(text, k, label, value) ==
    /\ Len(text) > k
    /\ text[Len(text) - k] = label
    /\ text[Len(text) - k + 1] = value

\* C16: create_user_prompt never fails: for every combination of present
\* and absent fields and preferences of any element type it returns one
\* text, in which an absent budget reads "Not specified" and absent special
\* requirements read "None".
C16_PromptNeverFails ==
    pc = "built" =>
        /\ ret.result.kind = "return"
        /\ ret.args.budget = None =>
              Field(ret.result.value, 7, " Budget Range: ", "Not specified")
        /\ ret.args.special_requirements = None =>
              Field(ret.result.value, 4, " Special Requirements: ", "None")

\* a constructor call has just ended
Constructed == pc \in {"failed", "constructed"}

\* C14: constructing either class with no API key as argument and none in
\* GEMINI_API_KEY (absent or empty in both) fails with a configuration error
\* before the SDK is configured and before any model is created; with a key
\* from either source the key check passes, and an argument key takes
\* precedence over the environment key.
C14_KeyCheck ==
    Constructed =>
        LET arg == ret.api_key
            env == ret.env.GEMINI_API_KEY
            absent == arg \in {None, ""} /\ env \in {None, ""}
        IN
        /\ ret.cls \in Classes
        /\ absent <=> pc = "failed"
        /\ pc = "failed" =>
              /\ ret.result.kind = "raise"
              /\ ret.result.exc.type = "ValueError"
              /\ sdk = NoSdk
              /\ assistant = Unconstructed
        /\ pc = "constructed" =>
              /\ ret.result.kind = "return"
              /\ assistant.cls = ret.cls
              /\ assistant.api_key = (IF arg \in {None, ""} THEN env ELSE arg)
              /\ arg = "arg-key" => assistant.api_key = "arg-key"
              /\ sdk.configured = assistant.api_key
              /\ sdk.models = 1

\* both sources set: the argument wins
C14_Witness ==
    /\ pc = "constructed"
    /\ ret.cls = "StructuredOutputTravelAssistant"
    /\ ret.api_key = "arg-key"
    /\ ret.env.GEMINI_API_KEY = "env-key"
    /\ assistant.api_key = "arg-key"
    /\ sdk.configured = "arg-key"

\* an empty argument and an empty variable: the constructor has raised
C14_WitnessFails ==
    /\ pc = "failed"
    /\ ret.api_key = ""
    /\ ret.env.GEMINI_API_KEY = ""
    /\ sdk = NoSdk

\* get_packing_list is running or has just returned
Packing == pc = "generating" \/ (pc = "packed" /\ ret.op = "get_packing_list")

\* C15: get_packing_list sends at most one request and never invokes the
\* dispatcher; when the reply text is not valid JSON it returns the fixed
\* eight-item default list with the requested destination; when a step
\* raises it returns {error: "Failed to generate packing list: <message>",
\* destination} instead of raising.
C15_PackingSingleTurn ==
    Packing =>
        /\ Len(sent) <= 1
        /\ turns = 0 /\ calls = << >> /\ function_result = NoResult
        /\ pc = "packed" =>
              /\ ret.result.kind = "return"
              /\ (ret.step \in {"none"} /\ JsonLoads(ResponseText(response).value).kind = "raise") =>
                    /\ ret.result.value.t = "dict"
                    /\ DOMAIN ret.result.value.v =
                          {"packing_list", "destination", "weather_considerations"}
                    /\ Len(ret.result.value.v.packing_list) = 8
                    /\ ret.result.value.v.packing_list[1] = "Comfortable walking shoes"
                    /\ ret.result.value.v.packing_list[8] = "Travel adapter (if needed)"
                    /\ ret.result.value.v.destination = request.destination
                    /\ \A d \in {"Goa", "Leh"} :
                          ret.result.value.v.packing_list = PackingFallback(d).v.packing_list
              /\ ret.exc # NoExc =>
                    /\ ret.result.value =
                          PyDict([error |-> <<"Failed to generate packing list: ">>
                                              \o ret.exc.msg,
                                  destination |-> request.destination])
              /\ (ret.step = "prompt") <=> (sent = << >>)
              /\ (response # NoResponse /\ ResponseText(response).kind = "raise") =>
                    ret.exc = ResponseText(response).exc

\* the service answered with text that is not JSON
C15_Witness ==
    /\ pc = "packed"
    /\ ret.op = "get_packing_list"
    /\ request.destination = "Leh"
    /\ Len(sent) = 1
    /\ response = Content(<<TextPart(<<"not", "json">>)>>)
    /\ ret.how = "fallback"
    /\ ret.result.value.v.destination = "Leh"
    /\ Len(ret.result.value.v.packing_list) = 8

\* the reply is a function call as the loop condition reads it
IsCallReply(r) ==
    /\ FirstFunctionCall(r).kind = "return"
    /\ Truthy(FirstFunctionCall(r).value)

\* plan_trip is between its first send and its return
InPlanTrip == pc \in {"awaiting", "loop"}

\* every message but the last has been answered and consumed
TurnInvariant ==
    /\ InPlanTrip => Len(sent) = turns + 1
    /\ pc = "awaiting" => (turns > 0 => sent[Len(sent)].kind = "function_response")
    /\ EndedOnText => (~IsCallReply(response) /\ Len(sent) = turns + 1)

TurnStep ==
    /\ pc = "awaiting" => sent' = sent
    /\ (InPlanTrip /\ sent' # sent /\ pc' # "idle") =>
          /\ pc = "loop"
          /\ IsCallReply(response)
          /\ function_call' = FirstFunctionCall(response).value
          /\ function_result'.kind = "return"
          /\ sent' = Append(sent, [kind |-> "function_response",
                                   name |-> function_call'.name,
                                   response |-> function_result'.value])
          /\ pc' = "awaiting"
    /\ (InPlanTrip /\ (turns' > turns \/ function_result' # function_result)
          /\ pc' # "idle") =>
          /\ pc = "loop"
          /\ IsCallReply(response)
          /\ turns' <= turns + 1
          /\ function_result'.kind = "return" =>
                (Len(sent') = Len(sent) + 1 /\ turns' = turns + 1)
          /\ function_result'.kind = "raise" => (pc' = "done" /\ sent' = sent)
    /\ (pc = "loop" /\ ~IsCallReply(response)) => (pc' = "done" /\ sent' = sent)
    /\ (pc = "loop" /\ IsCallReply(response)) => (pc' = "awaiting" \/ ret'.how = "caught")
    /\ (pc = "done" /\ pc' # "idle") => sent' = sent

\* C19: within one plan_trip the exchange is turn-based: a message is sent
\* only when no reply is pending; the dispatcher runs only after a
\* function-call reply and its result is the very next message; calls are
\* dispatched one at a time; the loop is left at the first reply that is
\* not a function call, and nothing is sent afterwards.
C19_TurnBased == []TurnInvariant /\ [][TurnStep]_vars

\* two round-trips, then a final text
C19_Witness ==
    /\ EndedOnText
    /\ turns = 2
    /\ Len(sent) = 3
    /\ sent[1].kind = "text"
    /\ sent[2].kind = "function_response"
    /\ sent[3] = [kind |-> "function_response", name |-> function_call.name,
                  response |-> function_result.value]

\* C20: every function-call part the service produces is dispatched exactly
\* once, replies with several call parts included: on normal completion the
\* dispatcher ran once per produced descriptor and the messages sent number
\* one more.
C20_ConsumedExactlyOnce ==
    EndedOnText =>
        /\ turns = produced
        /\ Len(sent) = produced + 1

\* getAttractions has returned its success payload
Attractions ==
    /\ Called("getAttractions")
    /\ CalledResult.kind = "return"
    /\ "recommended_attractions" \in DOMAIN CalledResult.value

\* the days of a day-indexed mapping read in order
RECURSIVE DaysInOrder(_, _)
DaysInOrder(days, k) ==
    IF k \notin DOMAIN days THEN << >> ELSE days[k] \o DaysInOrder(days, k + 1)

\* C24: for trip_duration >= 0, day_wise_suggestions has exactly
\* min(trip_duration, count/2) entries keyed day_1..day_n without gaps, count
\* being the number of attractions collected before truncation; each day
\* holds 2 attractions, the consecutive pairs of the collected list in order.
C24_DayWise ==
    (Attractions /\ CalledArgs.trip_duration >= 0) =>
        LET L == ListL(CalledArgs.preferences)
            d == CalledArgs.trip_duration
            days == CalledResult.value.day_wise_suggestions
            n == IF d < Len(L) \div 2 THEN d ELSE Len(L) \div 2
        IN
        /\ DOMAIN days = 1..n
        /\ Cardinality(DOMAIN days) = n
        /\ \A k \in DOMAIN days :
              /\ Len(days[k]) = 2
              /\ days[k] = <<L[2 * k - 1], L[2 * k]>>

\* six attractions collected, two days asked: days 1 and 2 are populated
C24_Witness ==
    /\ Attractions
    /\ CalledArgs.preferences = <<"beach", "food">>
    /\ CalledArgs.trip_duration = 2
    /\ DOMAIN CalledResult.value.day_wise_suggestions = {1, 2}
    /\ CalledResult.value.day_wise_suggestions[2] =
          <<"Thalassa Restaurant", "Fisherman's Wharf">>

\* C28: for trip_duration >= 0 every attraction of day_wise_suggestions is
\* in the returned recommended_attractions: the days read in order give a
\* prefix of that list.
C28_DaysWithinRecommended ==
    (Attractions /\ CalledArgs.trip_duration >= 0) =>
        LET rec == CalledResult.value.recommended_attractions
            inorder == DaysInOrder(CalledResult.value.day_wise_suggestions, 1)
        IN
        /\ Len(inorder) <= Len(rec)
        /\ \A i \in 1..Len(inorder) : i <= Len(rec) /\ inorder[i] = rec[i]

\* one day asked of four collected attractions: the day is the whole list
C28_Witness ==
    /\ Attractions
    /\ CalledArgs.preferences = <<"beach">>
    /\ CalledArgs.trip_duration = 1
    /\ CalledResult.value.recommended_attractions = <<"Baga Beach", "Calangute Beach">>
    /\ CalledResult.value.day_wise_suggestions[1] = <<"Baga Beach", "Calangute Beach">>

\* C29: the number announced in the summary ("Found N attractions ...")
\* equals the number of entries of the returned recommended_attractions.
C29_SummaryCount ==
    Attractions =>
        CalledResult.value.summary[2] = Len(CalledResult.value.recommended_attractions)

\* C30: for trip_duration <= 0 getAttractions returns an empty
\* recommended_attractions list and an empty day_wise_suggestions mapping.
C30_NonPositiveDuration ==
    (Attractions /\ CalledArgs.trip_duration <= 0) =>
        /\ CalledResult.value.recommended_attractions = << >>
        /\ DOMAIN CalledResult.value.day_wise_suggestions = {}

\* the weather-key configurations an assistant can have
WeatherKeys == {None, "weather-key"}

\* C27: each provider is pure given its inputs: a call returns the same
\* result whatever the assistant's configuration, in particular with and
\* without a weather key, and changes no state.
C27_ProvidersPure ==
    \A name \in KnownFunctions :
        (Called(name) /\ CalledResult.kind = "return") =>
            \A w \in WeatherKeys :
                CalledResult.value =
                    Provider([assistant EXCEPT !.weather_api_key = w], name, CalledArgs)

\* C25: the first message plan_trip sends is the combined prompt: the
\* system prompt followed by the user prompt built from the request, with
\* the retrieved context as additional context.
C25_CombinedPromptSent ==
    (pc \in {"awaiting", "loop"} \/ (pc = "done" /\ sent # << >>)) =>
        /\ sent[1].kind = "text"
        /\ Len(sent[1].text) = Len(SYSTEM_PROMPT) + Len(UserPrompt(request).value)
        /\ Head(sent[1].text) = Head(SYSTEM_PROMPT)

\* the outcome of plan_trip is read from the last reply alone
FinalFromReply ==
    EndedOnText => ret.result = ParseFinal(ResponseText(response).value)

\* a payload the dispatcher returned goes back as the function response
FeedBackStep ==
    (pc = "loop" /\ IsCallReply(response) /\ function_result'.kind = "return"
       /\ pc' # "idle") =>
        /\ pc' = "awaiting"
        /\ ret' = NoReturn
        /\ function_result' =
              ExecuteFunctionCall(assistant, FirstFunctionCall(response).value).out
        /\ sent' = Append(sent, [kind |-> "function_response",
                                 name |-> FirstFunctionCall(response).value.name,
                                 response |-> function_result'.value])

\* C21: whatever payload the dispatcher returns, success or error,
\* plan_trip does not abort: it sends the payload unchanged as the function
\* response named after the call and goes on, and the final outcome comes
\* from the service's later replies, not from the error payload.
C21_PayloadFedBack == []FinalFromReply /\ [][FeedBackStep]_vars

\* an unknown function was answered with its error payload, then a plan came
C21_Witness ==
    /\ EndedOnText
    /\ turns = 1
    /\ sent[2] = [kind |-> "function_response", name |-> "getTrains",
                  response |-> [error |-> <<"Unknown function: ", "getTrains">>]]
    /\ ret.how = "parsed"
    /\ ret.result.value.raw = <<"{", "\"itinerary\"", ":", "[", "]", "}">>

\* the error response holds the failure and the destination, nothing else
NoPartialResult ==
    (pc = "done" /\ ret.how = "caught") =>
        /\ ret.result.kind = "return"
        /\ ret.result.value.parsed.t = "dict"
        /\ DOMAIN ret.result.value.parsed.v = {"error", "destination", "status"}
        /\ ret.result.value.parsed.v.error = <<"Trip planning failed: ">> \o ret.exc.msg
        /\ ret.result.value.parsed.v.destination = request.destination
        /\ ret.result.value.raw = ret.exc.msg

\* the step that fails is the last one of the invocation
NoRetryStep ==
    /\ (InPlanTrip /\ pc' = "done" /\ ret'.how = "caught") =>
          /\ sent' = sent
          /\ turns' = turns
          /\ response' = response
    /\ pc = "done" => (pc' = "idle" /\ sent' = << >> /\ turns' = 0)

\* C23: no retries, no partial results: once a step of plan_trip fails the
\* invocation calls neither the service nor the dispatcher again, and the
\* error mapping it returns holds none of the earlier results or replies.
C23_NoRetryNoPartial == []NoPartialResult /\ [][NoRetryStep]_vars

\* the second send failed after one completed round-trip
C23_Witness ==
    /\ pc = "done"
    /\ ret.how = "caught"
    /\ ret.step = "send"
    /\ turns = 1
    /\ Len(sent) = 2
    /\ function_result.kind = "return"
    /\ DOMAIN ret.result.value.parsed.v = {"error", "destination", "status"}

\* what plan_trip returns, from its arguments and the service's replies
Outcome ==
    IF ret.how = "caught" THEN PlanTripExcept(request.destination, ret.exc)
    ELSE ParseFinal(ResponseText(response).value)

\* no operation on a constructed assistant touches the object or the SDK
FrameStep ==
    pc # "start" => (assistant' = assistant /\ sdk' = sdk)

\* an invocation starts from nothing but its own arguments
FreshStep ==
    (pc = "idle" /\ pc' = "awaiting") =>
        /\ sent' = << [kind |-> "text", text |-> UserPrompt(request').value] >>
        /\ turns' = 0
        /\ response' = NoResponse
        /\ function_result' = NoResult

\* C26: no mutable state crosses calls: every operation leaves the fields
\* of the assistant unchanged, each plan_trip starts a fresh conversation,
\* and its result depends only on its arguments and on the replies of that
\* invocation.
C26_NoSharedState ==
    /\ [](pc = "done" => ret.result = Outcome)
    /\ [][FrameStep /\ FreshStep]_vars

\* a completed invocation on an assistant that still has its keys and model
C26_Witness ==
    /\ EndedOnText
    /\ turns = 1
    /\ assistant.weather_api_key = "weather-key"
    /\ assistant.api_key = "env-key"
    /\ sdk = [configured |-> "env-key", models |-> 1]

\* a function-call reply whose dispatch returned never ends the loop, at
\* any turn count; plan_trip returns normally only at a reply that is not
\* a function call
LoopGoesOn ==
    /\ (pc = "loop" /\ IsCallReply(response) /\ function_result'.kind = "return"
          /\ pc' # "idle") =>
          (pc' = "awaiting" /\ turns' = turns + 1 /\ ret' = NoReturn)
    /\ (InPlanTrip /\ pc' = "done" /\ ret'.how # "caught") =>
          (pc = "loop" /\ ~IsCallReply(response) /\ turns' = turns)
    /\ (pc = "loop" /\ ~IsCallReply(response)) => pc' = "done"

\* C22: the loop has no turn limit: when the service gives a reply that is
\* not a function call after finitely many function-call replies, plan_trip
\* eventually returns, after as many round-trips as were requested; and no
\* number of function-call replies makes plan_trip stop on its own.
C22_NoTurnLimit ==
    /\ [][LoopGoesOn]_vars
    /\ [](EndedOnText => Len(sent) = turns + 1)
    /\ InPlanTrip ~> (pc = "done")

\* as many round-trips as the service asks for, and plan_trip is waiting
\* for the next reply
C22_Witness ==
    /\ pc = "awaiting"
    /\ turns = MaxTurns
    /\ Len(sent) = MaxTurns + 1
    /\ ret = NoReturn

====
